---- MODULE Spec2Model ----
(***************************************************************************)
(* wav-files-tempo (src/src/main.rs): a batch walk over an input tree that *)
(* reads mono 16 kHz 16-bit WAV files, normalises the samples to f32,      *)
(* time-stretches them by 1/tempo and writes the quantised result to the   *)
(* mirrored path under the output directory.                               *)
(*                                                                         *)
(* Number representations                                                  *)
(*   - an f32 audio sample is a record [k, q]: k = "fin" with the value    *)
(*     q / 2^15 (the grid on which every i16 / 32768.0 lies), or "nan",    *)
(*     "pinf", "ninf".  Products are rounded to the 24 significant bits    *)
(*     of an f32 (RoundSig).                                               *)
(*   - an f32 scalar (tempo, stretch_ratio) is a record [k, s, m, e]:      *)
(*     k = "fin" with the value s * m * 2^e (m odd, or m = 0 and e = 0),   *)
(*     or "inf" / "nan".                                                   *)
(*                                                                         *)
(* Environment                                                             *)
(*   - the entries WalkDir yields, and what each file holds, are chosen    *)
(*     when the walk reaches them; the output directory lies outside the   *)
(*     input tree;                                                         *)
(*   - every filesystem call that can fail (create_dir_all, open, decode,  *)
(*     create, write_sample, finalize) fails or succeeds by choice.        *)
(***************************************************************************)
EXTENDS Integers, Naturals, Sequences, FiniteSets, TLC

\* ------------------------------------------------------------------------
\* Arithmetic helpers
\* ------------------------------------------------------------------------

Abs(n) == IF n < 0 THEN -n ELSE n

Sgn(n) == IF n < 0 THEN -1 ELSE 1

\* f32 has 24 significant bits.
MantBits == 24

\* The number of low bits an integer magnitude p must lose to fit MantBits bits.
RECURSIVE ExcessBits(_)
ExcessBits(p) == IF p < 2^MantBits THEN 0 ELSE 1 + ExcessBits(p \div 2)

\* Round-to-nearest, ties-to-even, of a magnitude p to 24 significant bits.
RoundSig(p) ==
    LET sh   == ExcessBits(p)
        unit == 2^sh
        q    == p \div unit
        rem  == p % unit
        up   == IF sh = 0 THEN 0
                ELSE IF 2 * rem > unit \/ (2 * rem = unit /\ q % 2 = 1) THEN 1
                ELSE 0
    IN  (q + up) * unit

\* ------------------------------------------------------------------------
\* f32 samples (lines 80, 86-89)
\* ------------------------------------------------------------------------

I16Min == -32768

I16Max == 32767

\* Denominator of the sample grid: a finite sample Fin(q) has the value q / 2^15.
FloatScale == 2^15

Fin(q) == [k |-> "fin", q |-> q]

NaN == [k |-> "nan", q |-> 0]

PosInf == [k |-> "pinf", q |-> 0]

NegInf == [k |-> "ninf", q |-> 0]

\* line 80: s as f32 / 32768.0 (exact: an i16 fits 24 bits, 32768 is a power of two)
to_float_half_scale(s) == Fin((s * FloatScale) \div 16384)

to_float(s) == Fin((s * FloatScale) \div 32768)

\* line 88: s * 32767.0, rounded to f32
MulSample(x, c) ==
    IF x.k = "fin" THEN Fin(Sgn(x.q) * RoundSig(Abs(x.q) * c)) ELSE x

\* line 88: f32::clamp(lo, hi) with integer bounds lo, hi; NaN stays NaN
Clamp(x, lo, hi) ==
    CASE x.k = "nan"  -> x
      [] x.k = "pinf" -> Fin(hi * FloatScale)
      [] x.k = "ninf" -> Fin(lo * FloatScale)
      [] OTHER        -> IF x.q < lo * FloatScale THEN Fin(lo * FloatScale)
                         ELSE IF x.q > hi * FloatScale THEN Fin(hi * FloatScale)
                         ELSE x

\* An integer wrapped to 16 bits two's complement (what a wrapping cast gives).
WrapI16(n) == ((n - I16Min) % 2^16) + I16Min

\* line 88: `as i16`: truncation toward zero, saturating, NaN -> 0
CastI16(x) ==
    CASE x.k = "nan"  -> 0
      [] x.k = "pinf" -> I16Max
      [] x.k = "ninf" -> I16Min
      [] OTHER        -> LET t == Sgn(x.q) * (Abs(x.q) \div FloatScale)
                         IN  IF t > I16Max THEN I16Max
                             ELSE IF t < I16Min THEN I16Min
                             ELSE t

\* lines 86-89 as a conversion that neither clamps nor saturates
to_int_wrapping(x) ==
    IF x.k # "fin" THEN 0
    ELSE WrapI16(Sgn(x.q) * (RoundSig(Abs(x.q) * 32767) \div FloatScale))

\* lines 86-89: (s * 32767.0).clamp(-32768.0, 32767.0) as i16
to_int(x) == CastI16(Clamp(MulSample(x, 32767), I16Min, I16Max))

\* line 80 / lines 86-89 over a buffer: map(...).collect()
to_float_buf(buf) == [i \in 1..Len(buf) |-> to_float(buf[i])]

to_int_buf(buf) == [i \in 1..Len(buf) |-> to_int(buf[i])]

\* ------------------------------------------------------------------------
\* f32 scalars: tempo and stretch_ratio (lines 25, 30-36)
\* ------------------------------------------------------------------------

\* Strip the trailing zero bits of a mantissa: the canonical form.
RECURSIVE Canon(_, _, _)
Canon(s, m, e) ==
    IF m = 0 THEN [k |-> "fin", s |-> s, m |-> 0, e |-> 0]
    ELSE IF m % 2 = 0 THEN Canon(s, m \div 2, e + 1)
    ELSE [k |-> "fin", s |-> s, m |-> m, e |-> e]

Inf(s) == [k |-> "inf", s |-> s, m |-> 0, e |-> 0]

NaNScalar == [k |-> "nan", s |-> 1, m |-> 0, e |-> 0]

\* line 30: the literal 1.0
One == Canon(1, 1, 0)

\* line 30: tempo == 1.0 (IEEE equality: NaN equals nothing)
IsOne(t) == t.k = "fin" /\ t = One

IsPositive(t) == t.k \in {"fin", "inf"} /\ t.s = 1 /\ (t.k = "inf" \/ t.m > 0)

\* tempo < 1.0 and tempo > 1.0 for a finite positive tempo
LessThanOne(t) == IF t.e >= 0 THEN FALSE ELSE t.m < 2^(-t.e)

MoreThanOne(t) == IF t.e >= 0 THEN ~IsOne(t) ELSE t.m > 2^(-t.e)

\* Long division of 1 by m, bit by bit, until the quotient has 24 bits:
\* 1/m = (q + r/m) * 2^-k with 0 <= r < m.
RECURSIVE DivBits(_, _, _, _)
DivBits(q, r, k, m) ==
    IF q >= 2^(MantBits - 1) THEN [q |-> q, r |-> r, k |-> k]
    ELSE IF 2 * r >= m THEN DivBits(2 * q + 1, 2 * r - m, k + 1, m)
    ELSE DivBits(2 * q, 2 * r, k + 1, m)

\* line 34: 1.0 / tempo, rounded to nearest-even
Recip(t) ==
    CASE t.k = "nan" -> NaNScalar
      [] t.k = "inf" -> Canon(t.s, 0, 0)
      [] t.m = 0     -> Inf(t.s)
      [] OTHER       ->
            LET d  == DivBits(1 \div t.m, 1 % t.m, 0, t.m)
                up == IF 2 * d.r > t.m \/ (2 * d.r = t.m /\ d.q % 2 = 1)
                      THEN 1 ELSE 0
            IN  Canon(t.s, d.q + up, -d.k - t.e)

\* line 36: input_len as f32 (exact below 2^24)
FromLen(n) == Canon(1, RoundSig(n), 0)

\* line 36: the f32 product, rounded to nearest-even
MulScalar(a, b) ==
    CASE a.k = "nan" \/ b.k = "nan" -> NaNScalar
      [] a.k = "inf" \/ b.k = "inf" ->
            IF (a.k = "fin" /\ a.m = 0) \/ (b.k = "fin" /\ b.m = 0)
            THEN NaNScalar ELSE Inf(a.s * b.s)
      [] OTHER -> Canon(a.s * b.s, RoundSig(a.m * b.m), a.e + b.e)

\* line 36: `as usize`: truncation toward zero, saturating, NaN -> 0.
\* max = TRUE stands for usize::MAX.
CastUsize(x) ==
    CASE x.k = "nan" -> [max |-> FALSE, n |-> 0]
      [] x.k = "inf" -> [max |-> x.s = 1, n |-> 0]
      [] x.s = -1    -> [max |-> FALSE, n |-> 0]
      [] x.e >= 0    -> [max |-> FALSE, n |-> x.m * 2^x.e]
      [] OTHER       -> [max |-> FALSE, n |-> x.m \div 2^(-x.e)]

\* line 34: let stretch_ratio = 1.0 / tempo
stretch_ratio_not_inverted(tempo) == tempo

stretch_ratio(tempo) == Recip(tempo)

\* line 36: (input_len as f32 * stretch_ratio) as usize

output_len(input_len, tempo) ==
    CastUsize(MulScalar(FromLen(input_len), stretch_ratio(tempo)))

\* ------------------------------------------------------------------------
\* The stretch engine and stretch_samples (lines 29-59)
\* ------------------------------------------------------------------------

\* The tempo values the model runs with: -1.0, 0.0, 0.5, 0.75, 1.0,
\* 1.2 (as an f32: 10066330 * 2^-23) and 2.0.
Tempos ==
    { Canon(-1, 1, 0), Canon(1, 0, 0), Canon(1, 1, -1), Canon(1, 3, -2), One,
      Canon(1, 10066330, -23), Canon(1, 2, 0) }

\* lines 40-56: ssstretch is an external routine.  It is handed an output
\* buffer of output_len zeros and fills it; what it writes is opaque, so the
\* result is any of a few buffers of that length (values inside and outside
\* [-1.0, 1.0]).  The lengths are passed `as i32`, which changes nothing
\* below 2^31.
EngineFill(n) ==
    { [i \in 1..n |-> Fin(base + ((i - 1) % 4) * 2^13)] :
        base \in {-5 * 2^13, -2^13, 3 * 2^13} }

\* lines 29-59.  The set of outcomes of one call: kind "ok" with the returned
\* buffer, or "panic" (vec! cannot allocate usize::MAX elements: capacity
\* overflow).  engine holds the arguments of stretch.process when it is called.
stretch_samples_always_engine(input, sample_rate, tempo) ==
    LET n == output_len(Len(input), tempo)
    IN  IF n.max
        THEN {[kind |-> "panic", output |-> <<>>, sized |-> TRUE, engine |-> {}]}
        ELSE {[kind |-> "ok", output |-> o, sized |-> TRUE,
               engine |-> {[tempo |-> tempo, input_len |-> Len(input),
                            output_len |-> n.n]}] : o \in EngineFill(n.n)}

stretch_samples(input, sample_rate, tempo) ==
    IF IsOne(tempo)
    THEN {[kind |-> "ok", output |-> input, sized |-> FALSE, engine |-> {}]}
    ELSE LET n == output_len(Len(input), tempo)
         IN  IF n.max
             THEN {[kind |-> "panic", output |-> <<>>, sized |-> TRUE,
                    engine |-> {}]}
             ELSE {[kind |-> "ok", output |-> o, sized |-> TRUE,
                    engine |-> {[tempo |-> tempo, input_len |-> Len(input),
                                 output_len |-> n.n]}] : o \in EngineFill(n.n)}

\* ------------------------------------------------------------------------
\* Paths and the two directory trees (lines 110-121)
\* ------------------------------------------------------------------------

\* args.input_dir and args.output_dir, as sequences of path components.
InputDir == <<"in">>

OutputDir == <<"out">>

\* Path::extension of a file name: the part after the last dot, none for a
\* name without a dot or with only a leading dot.
Extension(name) ==
    CASE name \in {"a.wav", "b.wav", "c.wav", "folder.wav"} -> "wav"
      [] name = "d.WAV"     -> "WAV"
      [] name = "notes.txt" -> "txt"
      [] OTHER              -> ""

file_name(path) == path[Len(path)]

\* Path::parent
parent(path) == SubSeq(path, 1, Len(path) - 1)

\* Path::strip_prefix: Err when base is not a prefix of path
strip_prefix(path, base) ==
    IF Len(base) <= Len(path) /\ SubSeq(path, 1, Len(base)) = base
    THEN [ok |-> TRUE, rel |-> SubSeq(path, Len(base) + 1, Len(path))]
    ELSE [ok |-> FALSE, rel |-> <<>>]

\* Path::join with a relative path
join_flat(base, rel) == IF rel = <<>> THEN base ELSE base \o <<rel[Len(rel)]>>

join(base, rel) == base \o rel

Prefixes(dir, k) == {SubSeq(dir, 1, j) : j \in 1..k}

\* fs::create_dir_all(dir) given the directories that exist: Ok with every
\* missing component created, or Err at the first component it cannot
\* create (the ones before it stay created).  A directory that already
\* exists is Ok.
create_dir_all(dir, existing) ==
    {[ok |-> TRUE, dirs |-> existing \cup Prefixes(dir, Len(dir))]}
    \cup {[ok |-> FALSE, dirs |-> existing \cup Prefixes(dir, k)] :
            k \in {j \in 0..(Len(dir) - 1) : SubSeq(dir, 1, j + 1) \notin existing}}

\* ------------------------------------------------------------------------
\* Input files
\* ------------------------------------------------------------------------

WavSpec(c, r, b, f) ==
    [channels |-> c, sample_rate |-> r, bits_per_sample |-> b, sample_format |-> f]

\* lines 67-70: the one accepted format
RequiredSpec == WavSpec(1, 16000, 16, "Int")

NoSpec == WavSpec(0, 0, 0, "none")

Wav(open_ok, sp, samples, decode_ok) ==
    [open_ok |-> open_ok, spec |-> sp, samples |-> samples, decode_ok |-> decode_ok]

\* What a ".wav" file of the input tree may hold: well-formed files of the
\* accepted format, files that differ from it in one header field, a file
\* hound cannot open and one whose sample stream is cut short.
Contents ==
    { Wav(TRUE, RequiredSpec, <<>>, TRUE),
      Wav(TRUE, RequiredSpec, <<12345>>, TRUE),
      Wav(TRUE, RequiredSpec, <<-32768, 32767>>, TRUE),
      Wav(TRUE, WavSpec(2, 16000, 16, "Int"), <<12345>>, TRUE),
      Wav(TRUE, WavSpec(1, 8000, 16, "Int"), <<12345>>, TRUE),
      Wav(TRUE, WavSpec(1, 16000, 8, "Int"), <<12345>>, TRUE),
      Wav(TRUE, WavSpec(1, 16000, 32, "Float"), <<12345>>, TRUE),
      Wav(FALSE, NoSpec, <<>>, TRUE),
      Wav(TRUE, RequiredSpec, <<12345>>, FALSE) }

Entry(path, kind, wav) == [path |-> path, kind |-> kind, wav |-> wav]

NoEntry == Entry(<<>>, "none", Wav(FALSE, NoSpec, <<>>, FALSE))

\* What WalkDir may yield under input_dir: regular files named *.wav at
\* three depths, a file named *.WAV, a text file, a directory named *.wav.
WalkEntries ==
    { Entry(p, "file", w) :
        p \in { InputDir \o <<"a.wav">>, InputDir \o <<"sub", "b.wav">>,
                InputDir \o <<"sub", "deep", "c.wav">> },
        w \in Contents }
    \cup { Entry(InputDir \o <<"up", "d.WAV">>, "file", Wav(TRUE, RequiredSpec, <<12345>>, TRUE)),
           Entry(InputDir \o <<"docs", "notes.txt">>, "file", Wav(FALSE, NoSpec, <<>>, TRUE)),
           Entry(InputDir \o <<"folder.wav">>, "dir", Wav(FALSE, NoSpec, <<>>, TRUE)) }

\* line 113: e.file_type().is_file() && e.path().extension() == Some("wav")
Matches(e) == e.kind = "file" /\ Extension(file_name(e.path)) = "wav"

\* ------------------------------------------------------------------------
\* State
\* ------------------------------------------------------------------------

\* Bounds of the model.
MaxEntries == 2

VARIABLES
    pc,              \* where main / process_file stands
    tempo,           \* args.tempo
    walked,          \* the entries WalkDir has yielded so far: [path, kind]
    passed,          \* paths handed to process_file
    returned,        \* [path, result] of every process_file call that returned
    errlog,          \* what eprintln! wrote: [path, msg]
    dirs,            \* directories that exist at or under output_dir
    files,           \* files written under output_dir: [path, spec, samples, finalized]
    exit,            \* how main ended: "" while running
    cur,             \* the entry being processed
    out_path,        \* process_file's output_path
    files0,          \* files when the current process_file call began
    did,             \* the steps the current process_file call has taken
    spec,            \* process_file: reader.spec()
    input_samples,   \* process_file: Vec<f32>
    output_samples,  \* process_file: Vec<f32>
    output_i16,      \* process_file: Vec<i16>
    result,          \* process_file's return value: "ok" or the error
    engine_calls,    \* arguments of the stretch.process call of the current call
    hpc,             \* the unit harness: where it stands
    hsrc,            \* the unit harness: an i16 buffer
    hin,             \* the unit harness: the f32 buffer given to stretch_samples
    htempo,          \* the unit harness: the tempo given to stretch_samples
    hres,            \* the unit harness: the outcome of stretch_samples
    hout             \* the unit harness: the quantised buffer

mainVars == <<pc, tempo, walked, passed, returned, errlog, dirs, files, exit>>

callVars == <<cur, out_path, files0, did, spec, input_samples, output_samples,
              output_i16, result, engine_calls>>

harnessVars == <<hpc, hsrc, hin, htempo, hres, hout>>

vars == <<mainVars, callVars, harnessVars>>

NoOutcome == [kind |-> "none", output |-> <<>>, sized |-> FALSE, engine |-> {}]

CallIdle ==
    /\ cur = NoEntry
    /\ out_path = <<>>
    /\ files0 = {}
    /\ did = {}
    /\ spec = NoSpec
    /\ input_samples = <<>>
    /\ output_samples = <<>>
    /\ output_i16 = <<>>
    /\ result = ""
    /\ engine_calls = {}

HarnessOff ==
    /\ hpc = "off"
    /\ hsrc = <<>>
    /\ hin = <<>>
    /\ htempo = One
    /\ hres = NoOutcome
    /\ hout = <<>>

MainOff ==
    /\ pc = "off"
    /\ tempo = One
    /\ walked = {}
    /\ passed = {}
    /\ returned = {}
    /\ errlog = {}
    /\ dirs = {}
    /\ files = {}
    /\ exit = ""

\* line 104: the arguments are parsed; nothing has been done yet.
Init ==
    /\ pc = "start"
    /\ tempo \in Tempos
    /\ walked = {}
    /\ passed = {}
    /\ returned = {}
    /\ errlog = {}
    /\ dirs = {}
    /\ files = {}
    /\ exit = ""
    /\ CallIdle
    /\ HarnessOff

\* ------------------------------------------------------------------------
\* main (lines 103-129)
\* ------------------------------------------------------------------------

\* line 107: fs::create_dir_all(&args.output_dir)?
main_create_output_dir ==
    /\ pc = "start"
    /\ \E r \in create_dir_all(OutputDir, dirs) :
          /\ dirs' = r.dirs
          /\ IF r.ok
             THEN pc' = "walk" /\ exit' = exit
             ELSE pc' = "aborted" /\ exit' = "Failed to create output directory"
    /\ UNCHANGED <<tempo, walked, passed, returned, errlog, files>>
    /\ UNCHANGED <<callVars, harnessVars>>

WalkedPaths == {w.path : w \in walked}

\* lines 110-113: the iterator yields an entry the filter drops.
main_walk_skip ==
    /\ pc = "walk"
    /\ Cardinality(walked) < MaxEntries
    /\ \E e \in WalkEntries :
          /\ e.path \notin WalkedPaths
          /\ ~Matches(e)
          /\ walked' = walked \cup {[path |-> e.path, kind |-> e.kind]}
    /\ UNCHANGED <<pc, tempo, passed, returned, errlog, dirs, files, exit>>
    /\ UNCHANGED <<callVars, harnessVars>>

\* lines 115-123: what the loop body does with an entry the filter keeps,
\* up to the call of process_file.  Both `?` return from main.
LoopBody(e) ==
    LET sp == strip_prefix(e.path, InputDir)
        op == join(OutputDir, sp.rel)
    IN  IF ~sp.ok
        THEN /\ pc' = "aborted"
             /\ exit' = "Invalid relative path"
             /\ UNCHANGED <<passed, dirs, callVars>>
        ELSE \E r \in create_dir_all(parent(op), dirs) :
                /\ dirs' = r.dirs
                /\ IF r.ok
                   THEN /\ pc' = "open"
                        /\ exit' = exit
                        /\ passed' = passed \cup {e.path}
                        /\ cur' = e
                        /\ out_path' = op
                        /\ files0' = files
                        /\ UNCHANGED <<did, spec, input_samples, output_samples,
                                       output_i16, result, engine_calls>>
                   ELSE /\ pc' = "aborted"
                        /\ exit' = "Failed to create output subdir"
                        /\ UNCHANGED <<passed, callVars>>

\* lines 110-123: the iterator yields a regular file named *.wav.
main_walk_body ==
    /\ pc = "walk"
    /\ Cardinality(walked) < MaxEntries
    /\ \E e \in WalkEntries :
          /\ e.path \notin WalkedPaths
          /\ Matches(e)
          /\ walked' = walked \cup {[path |-> e.path, kind |-> e.kind]}
          /\ LoopBody(e)
    /\ UNCHANGED <<tempo, returned, errlog, files>>
    /\ UNCHANGED harnessVars

\* lines 123-125: process_file has returned; an Err is printed with the path.
Report(path, res) ==
    IF res = "ok" THEN errlog ELSE errlog \cup {[path |-> path, msg |-> res]}

main_report ==
    /\ pc = "ret"
    /\ errlog' = Report(cur.path, result)
    /\ returned' = returned \cup {[path |-> cur.path, result |-> result]}
    /\ pc' = "walk"
    /\ cur' = NoEntry
    /\ out_path' = <<>>
    /\ files0' = {}
    /\ did' = {}
    /\ spec' = NoSpec
    /\ input_samples' = <<>>
    /\ output_samples' = <<>>
    /\ output_i16' = <<>>
    /\ result' = ""
    /\ engine_calls' = {}
    /\ UNCHANGED <<tempo, walked, passed, dirs, files, exit>>
    /\ UNCHANGED harnessVars

\* line 128: the iterator is exhausted; main returns Ok(()).
main_finish ==
    /\ pc = "walk"
    /\ pc' = "done"
    /\ exit' = "ok"
    /\ UNCHANGED <<tempo, walked, passed, returned, errlog, dirs, files>>
    /\ UNCHANGED <<callVars, harnessVars>>

\* ------------------------------------------------------------------------
\* process_file (lines 62-101), one action per fallible step
\* ------------------------------------------------------------------------

\* `?` and bail!: process_file returns Err(msg) to main.
Return(msg) == pc' = "ret" /\ result' = msg

PutFile(fs, f) == {g \in fs : g.path # f.path} \cup {f}

FileAt(fs, path) == CHOOSE f \in fs : f.path = path

Exists(fs, path) == \E f \in fs : f.path = path

\* lines 67-70
Unsupported_channels_only(sp) == sp.channels # 1

\* lines 67-70
Unsupported(sp) ==
    \/ sp.channels # 1
    \/ sp.sample_rate # 16000
    \/ sp.bits_per_sample # 16
    \/ sp.sample_format # "Int"

\* lines 63-64: WavReader::open(input_path)?, reader.spec()
process_file_open ==
    /\ pc = "open"
    /\ did' = did \cup {"open"}
    /\ IF cur.wav.open_ok
       THEN pc' = "validate" /\ spec' = cur.wav.spec /\ result' = result
       ELSE Return("Failed to open input WAV") /\ spec' = spec
    /\ UNCHANGED <<cur, out_path, files0, input_samples, output_samples,
                   output_i16, engine_calls>>
    /\ UNCHANGED <<tempo, walked, passed, returned, errlog, dirs, files, exit>>
    /\ UNCHANGED harnessVars

\* lines 67-73
process_file_validate ==
    /\ pc = "validate"
    /\ did' = did \cup {"validate"}
    /\ IF Unsupported(spec)
       THEN Return("Unsupported format: expected mono 16-bit PCM at 16000 Hz")
       ELSE pc' = "decode" /\ result' = result
    /\ UNCHANGED <<cur, out_path, files0, spec, input_samples, output_samples,
                   output_i16, engine_calls>>
    /\ UNCHANGED <<tempo, walked, passed, returned, errlog, dirs, files, exit>>
    /\ UNCHANGED harnessVars

\* lines 76-80: the samples are read, then normalised to f32
process_file_decode ==
    /\ pc = "decode"
    /\ did' = did \cup {"decode"}
    /\ IF cur.wav.decode_ok
       THEN /\ pc' = "stretch"
            /\ input_samples' = to_float_buf(cur.wav.samples)
            /\ result' = result
       ELSE Return("Invalid sample") /\ input_samples' = input_samples
    /\ UNCHANGED <<cur, out_path, files0, spec, output_samples, output_i16,
                   engine_calls>>
    /\ UNCHANGED <<tempo, walked, passed, returned, errlog, dirs, files, exit>>
    /\ UNCHANGED harnessVars

\* line 83: stretch_samples(&input_samples, spec.sample_rate, tempo).  A
\* panic unwinds through process_file and main: the process ends.
process_file_stretch ==
    /\ pc = "stretch"
    /\ \E o \in stretch_samples(input_samples, spec.sample_rate, tempo) :
          /\ did' = did \cup {"stretch"} \cup (IF o.sized THEN {"sized"} ELSE {})
          /\ engine_calls' = o.engine
          /\ IF o.kind = "panic"
             THEN /\ pc' = "panicked"
                  /\ exit' = "capacity overflow"
                  /\ output_samples' = output_samples
             ELSE /\ pc' = "quantize"
                  /\ exit' = exit
                  /\ output_samples' = o.output
    /\ UNCHANGED <<cur, out_path, files0, spec, input_samples, output_i16, result>>
    /\ UNCHANGED <<tempo, walked, passed, returned, errlog, dirs, files>>
    /\ UNCHANGED harnessVars

\* lines 86-89
process_file_quantize ==
    /\ pc = "quantize"
    /\ did' = did \cup {"quantize"}
    /\ output_i16' = to_int_buf(output_samples)
    /\ pc' = "create"
    /\ UNCHANGED <<cur, out_path, files0, spec, input_samples, output_samples,
                   result, engine_calls>>
    /\ UNCHANGED <<tempo, walked, passed, returned, errlog, dirs, files, exit>>
    /\ UNCHANGED harnessVars

HeaderOf_default(sp) == WavSpec(1, 44100, 16, "Int")

\* line 92: the header WavWriter::create writes is the spec it is given.
HeaderOf(sp) == sp

\* line 92: WavWriter::create(output_path, spec)? creates (or truncates) the
\* file and writes the header
process_file_create ==
    /\ pc = "create"
    /\ did' = did \cup {"create"}
    /\ \/ /\ files' = PutFile(files, [path |-> out_path, spec |-> HeaderOf(spec),
                                      samples |-> <<>>, finalized |-> FALSE])
          /\ pc' = "write"
          /\ result' = result
       \/ /\ files' = files
          /\ Return("Failed to create output WAV")
    /\ UNCHANGED <<cur, out_path, files0, spec, input_samples, output_samples,
                   output_i16, engine_calls>>
    /\ UNCHANGED <<tempo, walked, passed, returned, errlog, dirs, exit>>
    /\ UNCHANGED harnessVars

\* lines 93-97: every sample is written in order; a failed write_sample
\* leaves the samples before it
process_file_write ==
    /\ pc = "write"
    /\ did' = did \cup {"write"}
    /\ \E k \in 0..Len(output_i16) :
          /\ files' = PutFile(files, [FileAt(files, out_path) EXCEPT
                                         !.samples = SubSeq(output_i16, 1, k)])
          /\ IF k = Len(output_i16)
             THEN pc' = "finalize" /\ result' = result
             ELSE Return("Failed to write sample")
    /\ UNCHANGED <<cur, out_path, files0, spec, input_samples, output_samples,
                   output_i16, engine_calls>>
    /\ UNCHANGED <<tempo, walked, passed, returned, errlog, dirs, exit>>
    /\ UNCHANGED harnessVars

\* lines 98-100: writer.finalize()?, Ok(())
process_file_finalize ==
    /\ pc = "finalize"
    /\ did' = did \cup {"finalize"}
    /\ \/ /\ files' = PutFile(files, [FileAt(files, out_path) EXCEPT
                                         !.finalized = TRUE])
          /\ Return("ok")
       \/ /\ files' = files
          /\ Return("Failed to finalize WAV")
    /\ UNCHANGED <<cur, out_path, files0, spec, input_samples, output_samples,
                   output_i16, engine_calls>>
    /\ UNCHANGED <<tempo, walked, passed, returned, errlog, dirs, exit>>
    /\ UNCHANGED harnessVars

Next ==
    \/ main_create_output_dir
    \/ main_walk_skip
    \/ main_walk_body
    \/ main_report
    \/ main_finish
    \/ process_file_open
    \/ process_file_validate
    \/ process_file_decode
    \/ process_file_stretch
    \/ process_file_quantize
    \/ process_file_create
    \/ process_file_write
    \/ process_file_finalize

Spec == Init /\ [][Next]_vars

\* ------------------------------------------------------------------------
\* Unit harness: stretch_samples called on its own, as the tests of
\* lines 135-162 call it
\* ------------------------------------------------------------------------

MaxLen == 10

\* line 138
TestSampleRate == 16000

\* The buffers of the tests (0.1, 0.2, ... on the sample grid, lines 137, 146
\* and 156) and buffers that hold -1.0 throughout, of every length to MaxLen.
TestBuffers ==
    { [i \in 1..n |-> Fin((i * FloatScale) \div 10)] : n \in 0..MaxLen }
    \cup { [i \in 1..n |-> Fin(-FloatScale)] : n \in 0..MaxLen }

InitStretch ==
    /\ MainOff
    /\ CallIdle
    /\ hpc = "idle"
    /\ hsrc = <<>>
    /\ hin = <<>>
    /\ htempo = One
    /\ hres = NoOutcome
    /\ hout = <<>>

\* lines 140, 149, 159: let output = stretch_samples(&input, sample_rate, tempo)
test_stretch_samples ==
    /\ hpc = "idle"
    /\ \E input \in TestBuffers, t \in Tempos :
          \E o \in stretch_samples(input, TestSampleRate, t) :
             /\ hin' = input
             /\ htempo' = t
             /\ hres' = o
    /\ hpc' = "called"
    /\ UNCHANGED <<hsrc, hout>>
    /\ UNCHANGED <<mainVars, callVars>>

SpecStretch == InitStretch /\ [][test_stretch_samples]_vars

\* ------------------------------------------------------------------------
\* Unit harness: the sample path of process_file (lines 80-89) on its own
\* ------------------------------------------------------------------------

MaxRamp == 2

\* Buffers of consecutive i16 values: every i16 value occurs in one.
Ramp(s, n) == [i \in 1..n |-> s + i - 1]

\* The finite f32 samples of the grid between -2.0 and 2.0, and the
\* non-finite ones.
ProbeSamples ==
    {Fin(q) : q \in (-2 * FloatScale)..(2 * FloatScale)} \cup {NaN, PosInf, NegInf}

\* lines 76-80 on a decoded buffer
conv_normalize ==
    /\ hpc = "idle"
    /\ \E n \in 0..MaxRamp :
          \E s \in I16Min..(I16Max - n + 1) :
             /\ hsrc' = Ramp(s, n)
             /\ hin' = to_float_buf(Ramp(s, n))
    /\ hpc' = "normalized"
    /\ UNCHANGED <<htempo, hres, hout>>
    /\ UNCHANGED <<mainVars, callVars>>

\* line 83 with tempo == 1.0
conv_stretch ==
    /\ hpc = "normalized"
    /\ \E o \in stretch_samples(hin, TestSampleRate, One) :
          hres' = o
    /\ hpc' = "stretched"
    /\ UNCHANGED <<hsrc, hin, htempo, hout>>
    /\ UNCHANGED <<mainVars, callVars>>

\* line 83 with another tempo: the engine has written a sample x
conv_engine ==
    /\ hpc = "idle"
    /\ \E x \in ProbeSamples :
          hres' = [kind |-> "ok", output |-> <<x>>, sized |-> TRUE, engine |-> {}]
    /\ hpc' = "stretched"
    /\ UNCHANGED <<hsrc, hin, htempo, hout>>
    /\ UNCHANGED <<mainVars, callVars>>

\* lines 86-89
conv_quantize ==
    /\ hpc = "stretched"
    /\ hout' = to_int_buf(hres.output)
    /\ hpc' = "quantized"
    /\ UNCHANGED <<hsrc, hin, htempo, hres>>
    /\ UNCHANGED <<mainVars, callVars>>

NextConv ==
    \/ conv_normalize
    \/ conv_stretch
    \/ conv_engine
    \/ conv_quantize

SpecConv == InitStretch /\ [][NextConv]_vars

\* The sample path on its own and inside the batch run.
InitRoundTrip == Init \/ InitStretch

NextRoundTrip == Next \/ NextConv

SpecRoundTrip == InitRoundTrip /\ [][NextRoundTrip]_vars

\* ------------------------------------------------------------------------
\* Properties
\* ------------------------------------------------------------------------

\* The path relative to input_dir, re-rooted under output_dir, component by
\* component.
IsMirror(out, inp) ==
    /\ Len(out) - Len(OutputDir) = Len(inp) - Len(InputDir)
    /\ \A i \in 1..Len(OutputDir) : out[i] = OutputDir[i]
    /\ \A i \in 1..(Len(inp) - Len(InputDir)) :
          out[Len(OutputDir) + i] = inp[Len(InputDir) + i]

\* d is a directory above the mirrored path of the input path inp.
AboveMirror(d, inp) ==
    /\ Len(d) < Len(inp) - Len(InputDir) + Len(OutputDir)
    /\ \A i \in 1..Len(d) :
          d[i] = IF i <= Len(OutputDir) THEN OutputDir[i]
                 ELSE inp[i - Len(OutputDir) + Len(InputDir)]

IsPrefix(d, path) == Len(d) <= Len(path) /\ \A i \in 1..Len(d) : d[i] = path[i]

\* The regular files with the extension "wav" that the walk has yielded.
FoundWavs == {w \in walked : w.kind = "file" /\ Extension(w.path[Len(w.path)]) = "wav"}

Ended == pc \in {"done", "aborted", "panicked"}

PreEncodeErrors ==
    { "Failed to open input WAV",
      "Unsupported format: expected mono 16-bit PCM at 16000 Hz",
      "Invalid sample" }

\* C1: batch failure isolation.  Once process_file has returned an error for
\* a file, the error is in the log with that file's path, every .wav file
\* the walk yields is passed to process_file, and the run does not abort: it
\* ends with Ok.
C1_FailureIsolation ==
    \A r \in returned :
        r.result # "ok" =>
            /\ [path |-> r.path, msg |-> r.result] \in errlog
            /\ \A w \in FoundWavs : w.path \in passed
            /\ pc \notin {"aborted", "panicked"}
            /\ (Ended => exit = "ok")

\* C2: format rejection.  While process_file works on a file that opened
\* with a header other than {1, 16000, 16, Int}, it stands before the decode
\* step or has returned the format error: no sample has been decoded or
\* converted, stretch_samples and the engine have not been called, and no
\* output file exists or was touched.  After the return there is still no
\* output file at the mirrored path.
C2_FormatRejection ==
    /\ (cur # NoEntry /\ cur.wav.open_ok /\ cur.wav.spec # RequiredSpec) =>
          /\ pc \in {"open", "validate", "ret"}
          /\ did \subseteq {"open", "validate"}
          /\ (pc = "ret" =>
                result = "Unsupported format: expected mono 16-bit PCM at 16000 Hz")
          /\ input_samples = <<>>
          /\ output_samples = <<>>
          /\ output_i16 = <<>>
          /\ engine_calls = {}
          /\ files = files0
          /\ ~Exists(files, out_path)
    /\ \A r \in returned :
          r.result = "Unsupported format: expected mono 16-bit PCM at 16000 Hz" =>
             \A f \in files : ~IsMirror(f.path, r.path)

C2_Witness ==
    /\ pc = "ret"
    /\ cur.wav.open_ok
    /\ cur.wav.spec.sample_format = "Float"
    /\ result = "Unsupported format: expected mono 16-bit PCM at 16000 Hz"

\* C3: the only failure that makes main return an error is the failure to
\* create the top-level output directory; a failure to create one file's
\* destination subdirectory (or to derive its relative path) does not.
C3_OnlyOutputDirIsFatal ==
    pc = "aborted" => exit = "Failed to create output directory"

\* C4: a tempo <= 0 is rejected before the engine: with such a tempo
\* stretch.process is never called and no output buffer is sized from
\* 1.0 / tempo.
C4_NonPositiveTempoRejected ==
    ~IsPositive(tempo) => (engine_calls = {} /\ "sized" \notin did)

\* C5: identity.  stretch_samples with tempo == 1.0 returns a buffer of the
\* input's length that equals the input element by element, for every input
\* including the empty one, and does not call the engine.
C5_Identity ==
    (hpc = "called" /\ htempo = Canon(1, 1, 0)) =>
        /\ hres.kind = "ok"
        /\ Len(hres.output) = Len(hin)
        /\ \A i \in 1..Len(hin) : hres.output[i] = hin[i]
        /\ hres.engine = {}
        /\ ~hres.sized

C5_Witness ==
    /\ hpc = "called"
    /\ htempo = Canon(1, 1, 0)
    /\ Len(hin) = 5
    /\ hres.output = hin

\* |n - len / t| <= 2 for a finite positive t = m * 2^e, in integers.
WithinTwo(n, len, t) ==
    IF t.e >= 0
    THEN Abs(n * t.m * 2^t.e - len) <= 2 * t.m * 2^t.e
    ELSE Abs(n * t.m - len * 2^(-t.e)) <= 2 * t.m

Stretched == hpc = "called" /\ IsPositive(htempo) /\ htempo # Canon(1, 1, 0)

\* C6 as stated: for every tempo t > 0 other than 1.0 and every input length
\* L the returned length is within 2 of L / t, shorter than the input when
\* t > 1 and longer than the input when t < 1.
C6_LengthScaling_AsStated ==
    Stretched =>
        /\ hres.kind = "ok"
        /\ WithinTwo(Len(hres.output), Len(hin), htempo)
        /\ (MoreThanOne(htempo) => Len(hres.output) < Len(hin))
        /\ (LessThanOne(htempo) => Len(hres.output) > Len(hin))

\* C6, amended: for every tempo t > 0 other than 1.0 and every input length
\* L the returned length is within 2 of L / t; when t > 1 it is never longer
\* than the input and is shorter for every non-empty input; when t < 1 it is
\* never shorter than the input (it may equal it).
C6_LengthScaling ==
    Stretched =>
        /\ hres.kind = "ok"
        /\ WithinTwo(Len(hres.output), Len(hin), htempo)
        /\ (MoreThanOne(htempo) =>
              /\ Len(hres.output) <= Len(hin)
              /\ (Len(hin) >= 1 => Len(hres.output) < Len(hin)))
        /\ (LessThanOne(htempo) => Len(hres.output) >= Len(hin))

C6_Witness ==
    /\ Stretched
    /\ LessThanOne(htempo)
    /\ Len(hin) = 1
    /\ Len(hres.output) = 1

\* s >= 1.0 and s <= -1.0 on samples (NaN compares false).
GeOne(x) == x.k = "pinf" \/ (x.k = "fin" /\ x.q >= FloatScale)

LeMinusOne(x) == x.k = "ninf" \/ (x.k = "fin" /\ x.q <= -FloatScale)

QuantizedEngineSample == hpc = "quantized" /\ hres.sized /\ Len(hres.output) = 1

\* C7 as stated: every sample s with |s| >= 1.0, exactly 1.0 and exactly
\* -1.0 included, is converted to exactly 32767 or exactly -32768.
C7_Clamping_AsStated ==
    QuantizedEngineSample =>
        ((GeOne(hres.output[1]) \/ LeMinusOne(hres.output[1])) =>
            hout[1] \in {32767, -32768})

\* C7, amended: every sample s >= 1.0 (and +inf) is converted to exactly
\* 32767; every sample s <= -1.0 (and -inf) is converted to -32768 or
\* -32767, never to a wrapped value: exactly -1.0 gives -32767 and every
\* s <= -(1 + 2^-15), the next value of the sample grid, gives -32768.
C7_Clamping ==
    QuantizedEngineSample =>
        LET x == hres.output[1] IN
        /\ Len(hout) = 1
        /\ (GeOne(x) => hout[1] = 32767)
        /\ (LeMinusOne(x) => hout[1] \in {-32768, -32767})
        /\ (x = Fin(-FloatScale) => hout[1] = -32767)
        /\ (LeMinusOne(x) /\ x # Fin(-FloatScale) => hout[1] = -32768)

C7_Witness ==
    /\ QuantizedEngineSample
    /\ hres.output[1] = Fin(-FloatScale)
    /\ hout[1] = -32767

\* C8: round trip.  An i16 buffer normalised (s / 32768.0), passed through
\* stretch_samples with tempo == 1.0 and quantised comes back with the same
\* length and every sample equal to the original or 1 away from it, for
\* every i16 value; and a batch run with tempo == 1.0 writes a file with as
\* many samples as its input, each within 1 of the original.
C8_RoundTrip ==
    /\ (hpc = "quantized" /\ ~hres.sized) =>
          /\ Len(hout) = Len(hsrc)
          /\ \A i \in 1..Len(hsrc) : Abs(hout[i] - hsrc[i]) <= 1
    /\ (pc = "ret" /\ result = "ok" /\ tempo = Canon(1, 1, 0)) =>
          \E f \in files :
             /\ f.path = out_path
             /\ Len(f.samples) = Len(cur.wav.samples)
             /\ \A i \in 1..Len(cur.wav.samples) :
                   Abs(f.samples[i] - cur.wav.samples[i]) <= 1

C8_Witness ==
    /\ hpc = "quantized"
    /\ ~hres.sized
    /\ hsrc = <<32766, 32767>>
    /\ hout = <<32765, 32766>>

\* Every file passed to process_file is a regular file the walk yielded
\* whose extension is exactly "wav".
PassedAreWavs ==
    \A p \in passed :
        /\ [path |-> p, kind |-> "file"] \in walked
        /\ Extension(p[Len(p)]) = "wav"

\* process_file is given the mirrored path, and every directory above it,
\* from output_dir down, exists.
CallIsMirrored ==
    cur # NoEntry =>
        /\ IsMirror(out_path, cur.path)
        /\ \A k \in Len(OutputDir)..(Len(out_path) - 1) :
              SubSeq(out_path, 1, k) \in dirs

\* Every file under output_dir is at the mirrored path of a file passed to
\* process_file.
FilesAreMirrors ==
    \A f \in files : \E p \in passed : IsMirror(f.path, p)

\* C9 as stated: after a batch run the output tree is an exact mirror of the
\* .wav files found: each is given the mirrored output path with its
\* directories created, and nothing is created under output_dir for non-WAV
\* files or for input directories that yield no output file.
C9_ExactMirror_AsStated ==
    /\ PassedAreWavs
    /\ CallIsMirrored
    /\ FilesAreMirrors
    /\ pc = "done" =>
          \A d \in dirs \ {OutputDir} : \E f \in files : IsPrefix(d, f.path)

\* C9, amended: every file passed to process_file is a regular file of the
\* input tree whose extension is exactly "wav"; its output path is
\* output_dir joined with its path relative to input_dir, and every
\* directory above that path exists before it is processed; every file
\* written under output_dir is at such a path; and every directory created
\* under output_dir is output_dir or lies on the mirrored path of a .wav
\* file found, whether or not that file yields an output file.
C9_PathMirroring ==
    /\ PassedAreWavs
    /\ CallIsMirrored
    /\ FilesAreMirrors
    /\ \A d \in dirs \ {OutputDir} : \E w \in FoundWavs : AboveMirror(d, w.path)

C9_Witness ==
    /\ pc = "done"
    /\ \E f \in files :
          f.path = <<"out", "sub", "deep", "c.wav">> /\ f.finalized
    /\ \E w \in walked : w.path = <<"in", "docs", "notes.txt">>
    /\ dirs = {<<"out">>, <<"out", "sub">>, <<"out", "sub", "deep">>}

\* C10: side effects of process_file.  When it returns Ok, the files under
\* output_dir are those of before the call plus exactly one, at output_path,
\* finalized, with the input's format fields and the quantised stretched
\* samples in order.  Until the writer is created (every sample has then
\* been decoded, stretched and quantised) nothing is created or modified, so
\* a failure to open, validate or decode, or a panic in stretch_samples,
\* leaves no file at output_path.
C10_SideEffects ==
    /\ (pc = "ret" /\ result = "ok") =>
          /\ ~Exists(files0, out_path)
          /\ files0 \subseteq files
          /\ Cardinality(files \ files0) = 1
          /\ \A f \in files \ files0 :
                /\ f.path = out_path
                /\ f.finalized
                /\ f.spec = cur.wav.spec
                /\ Len(f.samples) = Len(output_samples)
                /\ f.samples = output_i16
    /\ (pc = "ret" /\ result \in PreEncodeErrors) =>
          (files = files0 /\ ~Exists(files, out_path))
    /\ (pc \in {"open", "validate", "decode", "stretch", "quantize", "create",
                "panicked"} /\ cur # NoEntry) =>
          (files = files0 /\ ~Exists(files, out_path))
    /\ ("create" \in did) => ({"decode", "stretch", "quantize"} \subseteq did)

C10_Witness ==
    /\ pc = "ret"
    /\ result = "ok"
    /\ tempo = Canon(1, 1, -1)
    /\ Len(output_i16) = 4
    /\ \E f \in files : f.path = out_path /\ f.samples = output_i16 /\ f.finalized

====
